---- MODULE Spec2Model ----
(***************************************************************************)
(* Model of the concentrated-liquidity front-end glue of osmosis-frontend: *)
(*   - utils/string.ts             trimZerosFromEnd                         *)
(*   - hooks/input/use-price-input useAssetPairPriceInput                   *)
(*   - hooks/ui-config/use-add-concentrated-liquidity-config                *)
(*   - server/api/.../concentrated-liquidity router (normalizePositions)    *)
(*                                                                         *)
(* Strings are sequences of one-character strings.  A Dec (18 decimals,    *)
(* arbitrary size) is a record [m, e] standing for m * 10^e units of       *)
(* 10^-18, kept in normal form (m = 0 with e = 0, or 10 does not divide m).*)
(***************************************************************************)
EXTENDS Integers, Sequences, FiniteSets, TLC

VARIABLES
    \* ---- trimZerosFromEnd applied to a string
    str, trimmed, trimDone,
    \* ---- one useAssetPairPriceInput
    decRaw, baseDecimals, quoteDecimals, converted, price, removed, readded,
    \* ---- the concentrated-liquidity router and what it queries
    now,          \* Date.now(), in ms
    upstream,     \* the chain's answer to the three lookups, per kind and address
    clCache,      \* the LRU cache behind cachified: key -> [value, createdTime]
    request,      \* the input of the last getUserPositions call
    response,     \* what that call returned
    callParity,   \* flips at every getUserPositions call
    lastLookups,  \* the three lookups of that call: what each returned, and
                  \* whether its getFreshValue ran
    \* ---- getPositionStatus applied to one position
    stInput, stStatus, stDone,
    \* ---- useAddConcentratedLiquidityState
    pool,                  \* the pool prop (NoPool while the query has no data)
    historicalPriceData,   \* data of the 7d historical price query
    minPriceInput,         \* decRaw of the min price input
    maxPriceInput,         \* decRaw of the max price input
    fullRange,
    initialized,           \* initialized.current
    baseAmountInput,       \* "empty", "valid" or "invalid"
    quoteAmountInput,
    edited,                \* history: the user has set the range or full range
    \* ---- useAddConcentratedLiquidityConfig
    account,               \* a wallet is connected
    promise,               \* the promise of the last addLiquidity/increaseLiquidity
    events,                \* what logEvent was called with, in order
    sentMsgs,              \* the messages handed to the wallet, in order
    callCount,
    \* ---- getTotalClaimableRewards / getTotalEarned applied to two reward lists
    rwSpread, rwIncentives, rwOp, rwResult

strVars == <<str, trimmed, trimDone>>
priceVars == <<decRaw, baseDecimals, quoteDecimals, converted, price, removed, readded>>
routerVars == <<now, upstream, clCache, request, response, callParity, lastLookups>>
statusVars == <<stInput, stStatus, stDone>>
hookVars == <<pool, historicalPriceData, minPriceInput, maxPriceInput, fullRange,
              initialized, baseAmountInput, quoteAmountInput, edited>>
txVars == <<account, promise, events, sentMsgs, callCount>>
rewardVars == <<rwSpread, rwIncentives, rwOp, rwResult>>
vars == <<strVars, priceVars, routerVars, statusVars, hookVars, txVars, rewardVars>>

None == "none"
\* What a string-valued function yields when it throws.
Throws == <<"throws">>

----------------------------------------------------------------------------
(* Bounds *)

\* Longest string handed to trimZerosFromEnd.
MaxStrLen == 5

\* Longest string typed into a price input.
MaxRawLen == 3

\* Longest reward list handed to the reward totals.
MaxRewards == 2

\* The clock stops here (ms).
MaxNow == 6000

----------------------------------------------------------------------------
(* Dec: @keplr-wallet/unit Dec, 18 decimals *)

DecPrecision == 18

\* 10^n for n in 0..9, all that 32-bit arithmetic holds.
Pow10(n) ==
    <<1, 10, 100, 1000, 10000, 100000, 1000000, 10000000, 100000000, 1000000000>>[n + 1]

Abs(n) == IF n < 0 THEN -n ELSE n
Min2(a, b) == IF a <= b THEN a ELSE b
Max2(a, b) == IF a >= b THEN a ELSE b

RECURSIVE NumDigits(_)
NumDigits(n) == IF n < 10 THEN 1 ELSE 1 + NumDigits(n \div 10)

RECURSIVE Norm(_, _)
Norm(m, e) ==
    IF m = 0 THEN [m |-> 0, e |-> 0]
    ELSE IF m % 10 = 0 THEN Norm(m \div 10, e + 1)
    ELSE [m |-> m, e |-> e]

DecZero == [m |-> 0, e |-> 0]
\* What a Dec-valued function yields when it throws (no Dec has e < 0).
ThrowsDec == [m |-> 0, e |-> -1]
DecOfInt(n) == Norm(n, DecPrecision)

\* Dec.chopPrecisionAndRound: drop k rightmost digits, banker's rounding.
\* Mantissas of the model stay below 10^9, so more than 9 dropped digits give 0.
RoundShift(m, k) ==
    IF k > 9 THEN 0
    ELSE LET P == Pow10(k)
             q == Abs(m) \div P
             r == Abs(m) % P
             up == IF 2 * r > P THEN q + 1
                   ELSE IF 2 * r = P THEN q + (q % 2)
                   ELSE q
         IN IF m < 0 THEN -up ELSE up

\* m * 10^E units, E possibly negative: rounded to a whole number of units.
DecOfScaled(m, E) ==
    IF E >= 0 THEN Norm(m, E) ELSE Norm(RoundShift(m, -E), 0)

DecMul(a, b) == DecOfScaled(a.m * b.m, a.e + b.e - DecPrecision)

\* Dec.quo for a divisor whose mantissa is 1, 2 or 5 (powers of ten, 50, ...):
\* a / b = a.m * (10 / b.m) * 10^(a.e + 18 - b.e - 1) for b.m in {2, 5}.
DecQuo(a, b) ==
    IF b.m = 1 THEN DecOfScaled(a.m, a.e + DecPrecision - b.e)
    ELSE DecOfScaled(a.m * (10 \div b.m), a.e + DecPrecision - b.e - 1)

DecAdd(a, b) ==
    LET e == Min2(a.e, b.e)
    IN Norm(a.m * Pow10(a.e - e) + b.m * Pow10(b.e - e), e)

DecNeg(a) == [m |-> -a.m, e |-> a.e]
DecSub(a, b) == DecAdd(a, DecNeg(b))

DecIsZero(a) == a.m = 0

\* Comparison by magnitude first, so that far-apart exponents never overflow.
DecLtPos(a, b) ==
    IF b.m = 0 THEN FALSE
    ELSE IF a.m = 0 THEN TRUE
    ELSE LET da == NumDigits(a.m)
             db == NumDigits(b.m)
             D == Max2(da, db)
         IN IF da + a.e # db + b.e THEN da + a.e < db + b.e
            ELSE a.m * Pow10(D - da) < b.m * Pow10(D - db)

DecLt(a, b) ==
    IF a.m < 0 /\ b.m >= 0 THEN TRUE
    ELSE IF a.m >= 0 /\ b.m < 0 THEN FALSE
    ELSE IF a.m < 0 THEN DecLtPos(DecNeg(b), DecNeg(a))
    ELSE DecLtPos(a, b)

DecGt(a, b) == DecLt(b, a)
DecLte(a, b) == ~DecLt(b, a)
DecGte(a, b) == ~DecLt(a, b)

\* DecUtils.getTenExponentN(n): 10^n, for n < 0 as 1 / 10^-n.
GetTenExponentN(n) ==
    IF n >= 0 THEN Norm(1, DecPrecision + n)
    ELSE DecQuo(DecOfInt(1), Norm(1, DecPrecision - n))

----------------------------------------------------------------------------
(* Strings *)

Digits == {"0", "1", "2", "3", "4", "5", "6", "7", "8", "9"}

DigitVal(c) ==
    CASE c = "0" -> 0 [] c = "1" -> 1 [] c = "2" -> 2 [] c = "3" -> 3
      [] c = "4" -> 4 [] c = "5" -> 5 [] c = "6" -> 6 [] c = "7" -> 7
      [] c = "8" -> 8 [] c = "9" -> 9

DigitChar(d) ==
    CASE d = 0 -> "0" [] d = 1 -> "1" [] d = 2 -> "2" [] d = 3 -> "3"
      [] d = 4 -> "4" [] d = 5 -> "5" [] d = 6 -> "6" [] d = 7 -> "7"
      [] d = 8 -> "8" [] d = 9 -> "9"

\* The characters the model types: digits 0, 1, 5 and the decimal point.
Chars == {"0", "1", "5", "."}

StringsUpTo(n) == UNION {[1..k -> Chars] : k \in 0..n}

\* str.indexOf("."), 1-based; 0 stands for -1.
IndexOfDot(s) ==
    IF \E i \in 1..Len(s) : s[i] = "."
    THEN CHOOSE i \in 1..Len(s) : s[i] = "." /\ \A j \in 1..(i - 1) : s[j] # "."
    ELSE 0

\* while (i > decimalPointIndex && str.charAt(i) === "0") i--;
RECURSIVE TrimLoop(_, _, _)
TrimLoop(s, i, dot) ==
    IF i > dot /\ s[i] = "0" THEN TrimLoop(s, i - 1, dot) ELSE i

\* A mutant of trimZerosFromEnd: the all-zero guard is missing.
TrimZerosNoGuard(s) ==
    LET dot == IndexOfDot(s)
    IN IF dot = 0 THEN s
       ELSE LET i == TrimLoop(s, Len(s), dot)
                j == IF s[i] = "." THEN i - 1 ELSE i
            IN SubSeq(s, 1, j)

trimZerosFromEnd(s) ==
    LET dot == IndexOfDot(s)
    IN IF dot = 0 THEN s
       ELSE IF \A k \in (dot + 1)..Len(s) : s[k] = "0" THEN s
       ELSE LET i == TrimLoop(s, Len(s), dot)
                j == IF s[i] = "." THEN i - 1 ELSE i
            IN SubSeq(s, 1, j)

----------------------------------------------------------------------------
(* Specification SpecTrim: trimZerosFromEnd applied to every short string *)

IdleTrim == str = <<>> /\ trimmed = <<>> /\ trimDone = FALSE

InitTrimVars == str \in StringsUpTo(MaxStrLen) /\ trimmed = <<>> /\ trimDone = FALSE

Trim ==
    /\ ~trimDone
    /\ trimmed' = trimZerosFromEnd(str)
    /\ trimDone' = TRUE
    /\ UNCHANGED str

----------------------------------------------------------------------------
(* new Dec(string) and Dec.toString() *)

RECURSIVE IntOfDigits(_)
IntOfDigits(ds) ==
    IF Len(ds) = 0 THEN 0
    ELSE IntOfDigits(SubSeq(ds, 1, Len(ds) - 1)) * 10 + DigitVal(ds[Len(ds)])

RECURSIVE DigitsOfInt(_)
DigitsOfInt(n) ==
    IF n < 10 THEN <<DigitChar(n)>>
    ELSE Append(DigitsOfInt(n \div 10), DigitChar(n % 10))

Zeros(n) == [i \in 1..n |-> "0"]

RECURSIVE TrailingZeros(_)
TrailingZeros(ds) ==
    IF Len(ds) = 0 \/ ds[Len(ds)] # "0" THEN 0
    ELSE 1 + TrailingZeros(SubSeq(ds, 1, Len(ds) - 1))

DotCount(s) == Cardinality({i \in 1..Len(s) : s[i] = "."})

\* isValidDecimalString, /^-?\d+.?\d*$/, on strings of digits and points.
ValidDecimalString(s) ==
    /\ Len(s) >= 1
    /\ s[1] \in Digits
    /\ \A i \in 1..Len(s) : s[i] \in Digits \cup {"."}
    /\ DotCount(s) <= 1

\* new Dec(s): the digits without the point, scaled by 10^(18 - decimals).
ParseDec(s) ==
    IF ~ValidDecimalString(s) THEN ThrowsDec
    ELSE LET dot == IndexOfDot(s)
             fracLen == IF dot = 0 THEN 0 ELSE Len(s) - dot
             ds == IF dot = 0 THEN s
                   ELSE SubSeq(s, 1, dot - 1) \o SubSeq(s, dot + 1, Len(s))
             tz == TrailingZeros(ds)
             sig == SubSeq(ds, 1, Len(ds) - tz)
         IN Norm(IntOfDigits(sig), DecPrecision - fracLen + tz)

\* Dec.toString(): the integer part, a point and all 18 decimals.
DecToString(d) ==
    LET S == DigitsOfInt(Abs(d.m)) \o Zeros(d.e)
        L == Len(S)
        intPart == IF L <= DecPrecision THEN <<"0">> ELSE SubSeq(S, 1, L - DecPrecision)
        frac == IF L <= DecPrecision THEN Zeros(DecPrecision - L) \o S
                ELSE SubSeq(S, L - DecPrecision + 1, L)
    IN (IF d.m < 0 THEN <<"-">> ELSE <<>>) \o intPart \o <<".">> \o frac

----------------------------------------------------------------------------
(* useAssetPairPriceInput: operators over the raw value and the currency   *)
(* decimals of the pair                                                    *)

\* Currency decimals the model's currencies have (uosmo/uusdc 6, wei 18, 0).
CoinDecimals == {0, 6, 18}

multiplicationQuoteOverBase(bd, qd) == GetTenExponentN(bd - qd)

\* What input(value) stores for a typed string.
InputString(value) ==
    IF Len(value) > 0 /\ value[1] = "." THEN <<"0">> \o value
    ELSE IF value = <<>> THEN <<"0">>
    ELSE value

\* What input(value) stores for a Dec.
InputDecValue(d) == DecToString(d)

addCurrencyDecimals(p, bd, qd) == DecMul(p, multiplicationQuoteOverBase(bd, qd))

\* A mutant of removeCurrencyDecimals: multiplies where it should divide.
RemoveCurrencyDecimalsMul(p, bd, qd) == DecMul(p, multiplicationQuoteOverBase(bd, qd))

removeCurrencyDecimals(p, bd, qd) == DecQuo(p, multiplicationQuoteOverBase(bd, qd))

toDec(raw, bd, qd) ==
    LET cut == IF raw[Len(raw)] = "." THEN SubSeq(raw, 1, Len(raw) - 1) ELSE raw
    IN IF ParseDec(cut) = ThrowsDec THEN ThrowsDec
       ELSE removeCurrencyDecimals(ParseDec(cut), bd, qd)

toDecWithCurrencyDecimals(raw) == ParseDec(raw)

\* A mutant of toString: the raw value is returned as typed.
ToStringRaw(raw) == IF ParseDec(raw) = ThrowsDec THEN Throws ELSE raw

toString(raw) ==
    IF ParseDec(raw) = ThrowsDec THEN Throws
    ELSE IF DecIsZero(ParseDec(raw)) THEN raw
    ELSE trimZerosFromEnd(raw)

----------------------------------------------------------------------------
(* Specification SpecPrice: one price input, every short string typed into  *)
(* it, and prices converted to and from currency decimals                   *)

\* Prices handed to input() as a Dec and to add/removeCurrencyDecimals.
PriceSamples ==
    { DecZero, Norm(1, 0), Norm(15, 5), Norm(1, 12), Norm(25, 16), DecOfInt(1), DecOfInt(100) }

IdlePrice ==
    /\ decRaw = <<"0">> /\ baseDecimals = 0 /\ quoteDecimals = 0
    /\ converted = FALSE /\ price = DecZero /\ removed = DecZero /\ readded = DecZero

InitPriceVars ==
    /\ decRaw = <<"0">>
    /\ baseDecimals \in CoinDecimals
    /\ quoteDecimals \in CoinDecimals
    /\ converted = FALSE /\ price = DecZero /\ removed = DecZero /\ readded = DecZero

\* input(value: string)
Input(value) ==
    /\ decRaw' = InputString(value)
    /\ UNCHANGED <<baseDecimals, quoteDecimals, converted, price, removed, readded>>

\* input(value: Dec)
InputDec(d) ==
    /\ decRaw' = InputDecValue(d)
    /\ UNCHANGED <<baseDecimals, quoteDecimals, converted, price, removed, readded>>

\* removeCurrencyDecimals(p) followed by addCurrencyDecimals of its result.
Convert(p) ==
    /\ converted' = TRUE
    /\ price' = p
    /\ removed' = removeCurrencyDecimals(p, baseDecimals, quoteDecimals)
    /\ readded' = addCurrencyDecimals(removed', baseDecimals, quoteDecimals)
    /\ UNCHANGED <<decRaw, baseDecimals, quoteDecimals>>

----------------------------------------------------------------------------
(* @osmosis-labs/math: ticks and prices.  One tick is 10^-6 of the power   *)
(* of ten below the price; 9 * 10^6 ticks span a power of ten.             *)

minTick == -108000000
maxTick == 342000000
TicksPerPowerOfTen == 9000000
ExponentAtPriceOne == 6

\* The price at a tick: (10^6 + r) * 10^(k - 6), tick = 9 * 10^6 * k + r.
TickToPrice(tick) ==
    LET k == tick \div TicksPerPowerOfTen
        r == tick % TicksPerPowerOfTen
    IN Norm(Pow10(ExponentAtPriceOne) + r, DecPrecision + k - ExponentAtPriceOne)

----------------------------------------------------------------------------
(* The chain and the asset list, as the router's queries see them *)

Addresses == {"osmo1a", "osmo1b"}

UnbondingKind == "cl-unbonding-info"
DelegatedKind == "cl-delegated-positions"
UndelegatingKind == "cl-undelegating-positions"
Kinds == {UnbondingKind, DelegatedKind, UndelegatingKind}

\* getAsset({ anyDenom }): the asset list.
AssetFound(denom) == denom \in {"uosmo", "uusdc", "wei", "OSMO"}
GetAsset(denom) ==
    CASE denom = "uosmo" -> [coinMinimalDenom |-> "uosmo", coinDecimals |-> 6]
      [] denom = "OSMO"  -> [coinMinimalDenom |-> "uosmo", coinDecimals |-> 6]
      [] denom = "uusdc" -> [coinMinimalDenom |-> "uusdc", coinDecimals |-> 6]
      [] denom = "wei"   -> [coinMinimalDenom |-> "wei", coinDecimals |-> 18]

Coin(amount, denom) == [amount |-> amount, denom |-> denom]

\* rawAssets?: a list of raw coins, or undefined.
Present(items) == [present |-> TRUE, items |-> items]
Absent == [present |-> FALSE, items |-> <<>>]

RawPosition(id, pool_id, lower, upper, join, a0, a1, spread, incentives) ==
    [ position_id |-> id, pool_id |-> pool_id, lower_tick |-> lower,
      upper_tick |-> upper, join_time |-> join, liquidity |-> 100 * id,
      asset0 |-> a0, asset1 |-> a1,
      claimable_spread_rewards |-> Present(spread),
      claimable_incentives |-> Present(incentives) ]

\* queryCLPositions({ bech32Address }): the positions of each address, in the
\* order the chain returns them.  Position 7 has no asset0 denom; position 8
\* is in a pool getPools does not return.
QueryCLPositions(addr) ==
    IF addr = "osmo1a"
    THEN << RawPosition(1, 1, -1000000, 1000000, 20,
                        Coin(5, "uosmo"), Coin(5, "uusdc"),
                        <<Coin(1, "uosmo")>>, <<Coin(2, "uosmo"), Coin(3, "uusdc")>>),
            RawPosition(2, 1, minTick, maxTick, 10,
                        Coin(7, "uosmo"), Coin(7, "uusdc"),
                        <<>>, <<Coin(4, "ibc/unknown")>>),
            RawPosition(3, 1, 1000000, 2000000, 30,
                        Coin(0, "uosmo"), Coin(9, "uusdc"),
                        <<Coin(1, "uusdc"), Coin(1, "uusdc")>>, <<>>),
            RawPosition(5, 1, -5000000, 1000000, 20,
                        Coin(2, "uosmo"), Coin(1, "uusdc"), <<>>, <<>>),
            RawPosition(7, 1, -1000000, 1000000, 40,
                        Coin(2, ""), Coin(1, "uusdc"), <<>>, <<>>),
            RawPosition(8, 9, -1000000, 1000000, 50,
                        Coin(2, "uosmo"), Coin(1, "uusdc"), <<>>, <<>>) >>
    ELSE << RawPosition(4, 2, 0, 9000000, 15,
                        Coin(3, "wei"), Coin(8, "uusdc"),
                        <<Coin(6, "wei")>>, <<Coin(6, "wei")>>),
            RawPosition(6, 2, minTick, maxTick, 25,
                        Coin(1, "wei"), Coin(1, "uusdc"), <<>>, <<>>) >>

PositionIds(addr) ==
    {QueryCLPositions(addr)[i].position_id : i \in 1..Len(QueryCLPositions(addr))}

\* getPools({ poolIds }): pools 1 and 2 are concentrated, pool 3 is not.
\* current_sqrt_price is 1 in pool 1 and 2 in pool 2.
PoolFound(id) == id \in {1, 2, 3}
GetPool(id) ==
    CASE id = 1 -> [id |-> 1, type |-> "concentrated", current_sqrt_price |-> DecOfInt(1)]
      [] id = 2 -> [id |-> 2, type |-> "concentrated", current_sqrt_price |-> DecOfInt(2)]
      [] id = 3 -> [id |-> 3, type |-> "weighted", current_sqrt_price |-> DecZero]

----------------------------------------------------------------------------
(* concentrated-liquidity router: pure parts *)

\* sort(list, "joinTime", direction) of ~/utils/sort: a stable sort.
RECURSIVE InsertByJoinTime(_, _, _)
InsertByJoinTime(sorted, x, direction) ==
    IF Len(sorted) = 0 THEN <<x>>
    ELSE LET last == sorted[Len(sorted)]
             inOrder == IF direction = "asc" THEN last.joinTime <= x.joinTime
                        ELSE last.joinTime >= x.joinTime
         IN IF inOrder THEN Append(sorted, x)
            ELSE Append(InsertByJoinTime(SubSeq(sorted, 1, Len(sorted) - 1), x, direction),
                        last)

RECURSIVE Sort(_, _)
Sort(list, direction) ==
    IF Len(list) = 0 THEN <<>>
    ELSE InsertByJoinTime(Sort(SubSeq(list, 1, Len(list) - 1), direction),
                          list[Len(list)], direction)

\* inRange && diffPercentage <= 15, diffPercentage = diff / rangeDiff * 100.
\* The quotient is compared as diff * 100 <= rangeDiff * 15: on prices of few
\* digits the 18-decimal rounding of the quotient cannot cross 0.15.
DiffPercentageLte15(lowerPrice, upperPrice, currentPrice) ==
    LET d1 == DecSub(currentPrice, lowerPrice)
        d2 == DecSub(upperPrice, currentPrice)
        diff == IF DecLt(d2, d1) THEN d2 ELSE d1
        rangeDiff == DecSub(upperPrice, lowerPrice)
    IN IF DecIsZero(currentPrice) \/ DecIsZero(rangeDiff) THEN TRUE
       ELSE DecLte(DecMul(diff, DecOfInt(100)), DecMul(rangeDiff, DecOfInt(15)))

\* A mutant of getPositionStatus: unbonding is tested before full range.
GetPositionStatusUnbondingFirst(lowerPrice, upperPrice, currentPrice, isFullRange, isSuperfluid, isSuperfluidUnstaking, isUnbonding) ==
    LET inRange == DecLt(lowerPrice, currentPrice) /\ DecGt(upperPrice, currentPrice)
    IN IF isUnbonding THEN "unbonding"
       ELSE IF isFullRange THEN "fullRange"
       ELSE IF isSuperfluid THEN "superfluidStaked"
       ELSE IF isSuperfluidUnstaking THEN "superfluidUnstaking"
       ELSE IF inRange
            THEN IF DiffPercentageLte15(lowerPrice, upperPrice, currentPrice)
                 THEN "nearBounds" ELSE "inRange"
       ELSE "outOfRange"

getPositionStatus(lowerPrice, upperPrice, currentPrice, isFullRange, isSuperfluid, isSuperfluidUnstaking, isUnbonding) ==
    LET inRange == DecLt(lowerPrice, currentPrice) /\ DecGt(upperPrice, currentPrice)
    IN IF isFullRange THEN "fullRange"
       ELSE IF isUnbonding THEN "unbonding"
       ELSE IF isSuperfluid THEN "superfluidStaked"
       ELSE IF isSuperfluidUnstaking THEN "superfluidUnstaking"
       ELSE IF inRange
            THEN IF DiffPercentageLte15(lowerPrice, upperPrice, currentPrice)
                 THEN "nearBounds" ELSE "inRange"
       ELSE "outOfRange"

\* getPositionAsset: undefined (FALSE here) without amount or denom.
HasPositionAsset(coin) == coin.denom # ""

getPriceFromSqrtPrice(sqrtPrice, baseDecimals_, quoteDecimals_) ==
    DecMul(DecMul(sqrtPrice, sqrtPrice), GetTenExponentN(baseDecimals_ - quoteDecimals_))

\* tickToSqrtPrice(tick) squared is taken to be the price at the tick.
getClTickPrice(tick, baseDecimals_, quoteDecimals_) ==
    DecMul(TickToPrice(tick), GetTenExponentN(baseDecimals_ - quoteDecimals_))

isPositionFullRange(lowerTick, upperTick) == lowerTick = minTick /\ upperTick = maxTick

\* rawAssets.map(...) and the filter: the coins whose asset is found, in order,
\* each under its asset's coinMinimalDenom.
RECURSIVE MapFoundAssets(_)
MapFoundAssets(items) ==
    IF Len(items) = 0 THEN <<>>
    ELSE LET c == items[1]
             rest == MapFoundAssets(SubSeq(items, 2, Len(items)))
         IN IF AssetFound(c.denom)
            THEN <<Coin(c.amount, GetAsset(c.denom).coinMinimalDenom)>> \o rest
            ELSE rest

\* mapRawAssetsToCoinPretty({ rawAssets }): [] when rawAssets is undefined.
mapRawAssetsToCoinPretty(rawAssets) ==
    IF ~rawAssets.present THEN <<>> ELSE MapFoundAssets(rawAssets.items)

\* The reduce into a Map keyed by coinMinimalDenom: a Map keeps the order in
\* which its keys were first set.
\* A mutant of SumByDenoms: a coin of a denom already in the Map replaces it.
RECURSIVE SumByDenomsLastWins(_, _)
SumByDenomsLastWins(acc, coins) ==
    IF Len(coins) = 0 THEN acc
    ELSE LET c == coins[1]
             rest == SubSeq(coins, 2, Len(coins))
         IN IF \E i \in 1..Len(acc) : acc[i].denom = c.denom
            THEN SumByDenomsLastWins([i \in 1..Len(acc) |->
                                         IF acc[i].denom = c.denom THEN c ELSE acc[i]], rest)
            ELSE SumByDenomsLastWins(Append(acc, c), rest)

RECURSIVE SumByDenoms(_, _)
SumByDenoms(acc, coins) ==
    IF Len(coins) = 0 THEN acc
    ELSE LET c == coins[1]
             rest == SubSeq(coins, 2, Len(coins))
         IN IF \E i \in 1..Len(acc) : acc[i].denom = c.denom
            THEN SumByDenoms([i \in 1..Len(acc) |->
                                 IF acc[i].denom = c.denom
                                 THEN Coin(acc[i].amount + c.amount, c.denom)
                                 ELSE acc[i]], rest)
            ELSE SumByDenoms(Append(acc, c), rest)

getTotalClaimableRewards(rawClaimableIncentiveRewards, rawClaimableSpreadRewards) ==
    SumByDenoms(<<>>, mapRawAssetsToCoinPretty(rawClaimableSpreadRewards)
                        \o mapRawAssetsToCoinPretty(rawClaimableIncentiveRewards))

getTotalEarned(totalSpreadRewards, totalIncentivesRewards) ==
    SumByDenoms(<<>>, mapRawAssetsToCoinPretty(totalSpreadRewards)
                        \o mapRawAssetsToCoinPretty(totalIncentivesRewards))

----------------------------------------------------------------------------
(* concentrated-liquidity router: the cached lookups and the procedures *)

\* ttl: 5 * 1000, // 5 seconds
TtlMs == 5 * 1000

\* cachified({ cache, key, getFreshValue, ttl }): the cached value while
\* Date.now() <= createdTime + ttl, else the fresh value, which is stored;
\* queried tells that getFreshValue ran.
Cachified(cache, key, fresh, ttl, t) ==
    IF key \in DOMAIN cache /\ t <= cache[key].createdTime + ttl
    THEN [value |-> cache[key].value, cache |-> cache, queried |-> FALSE]
    ELSE [value |-> fresh,
          cache |-> [k \in DOMAIN cache \cup {key} |->
                        IF k = key THEN [value |-> fresh, createdTime |-> t]
                        ELSE cache[k]],
          queried |-> TRUE]

\* A mutant of getUserUnbondingPositions: a ttl of 5 minutes.
GetUserUnbondingPositionsLongTtl(cache, userOsmoAddress, up, t) ==
    Cachified(cache, <<userOsmoAddress, UnbondingKind>>,
              up[UnbondingKind][userOsmoAddress], 5 * 60 * 1000, t)

\* key: `${userOsmoAddress}-cl-unbonding-info`
getUserUnbondingPositions(cache, userOsmoAddress, up, t) ==
    Cachified(cache, <<userOsmoAddress, UnbondingKind>>,
              up[UnbondingKind][userOsmoAddress], TtlMs, t)

\* A mutant of getUserDelegatedClPositions: the key of the unbonding lookup.
GetUserDelegatedClPositionsSharedKey(cache, userOsmoAddress, up, t) ==
    Cachified(cache, <<userOsmoAddress, UnbondingKind>>,
              up[DelegatedKind][userOsmoAddress], TtlMs, t)

\* key: `${userOsmoAddress}-cl-delegated-positions`
getUserDelegatedClPositions(cache, userOsmoAddress, up, t) ==
    Cachified(cache, <<userOsmoAddress, DelegatedKind>>,
              up[DelegatedKind][userOsmoAddress], TtlMs, t)

\* key: `${userOsmoAddress}-cl-undelegating-positions`
getUserUndelegatingClPositions(cache, userOsmoAddress, up, t) ==
    Cachified(cache, <<userOsmoAddress, UndelegatingKind>>,
              up[UndelegatingKind][userOsmoAddress], TtlMs, t)

\* The callback of positions.map passes the asset check.
PassesAssets(p) == HasPositionAsset(p.asset0) /\ HasPositionAsset(p.asset1)

\* The callback throws: an asset that is not found, or a pool that is not
\* concentrated (the stake currency OSMO is in the asset list).
CallbackThrows(p) ==
    \/ \E c \in {p.asset0, p.asset1} : c.denom # "" /\ ~AssetFound(c.denom)
    \/ PassesAssets(p) /\ PoolFound(p.pool_id) /\ GetPool(p.pool_id).type # "concentrated"
    \/ ~AssetFound("OSMO")

\* The getPositionStatus call of normalizePositions: prices from the ticks and
\* the pool's current_sqrt_price, isFullRange from the ticks.
PositionStatus(lower_tick, upper_tick, current_sqrt_price, bd, qd, isSuperfluid, isSuperfluidUnstaking, isUnbonding) ==
    getPositionStatus(getClTickPrice(lower_tick, bd, qd),
                      getClTickPrice(upper_tick, bd, qd),
                      getPriceFromSqrtPrice(current_sqrt_price, bd, qd),
                      isPositionFullRange(lower_tick, upper_tick),
                      isSuperfluid, isSuperfluidUnstaking, isUnbonding)

\* The object one callback returns for a position that is kept.
NormalizedPosition(p, userUnbondingPositions, delegatedPositions, undelegatingPositions) ==
    LET bd == GetAsset(p.asset0.denom).coinDecimals
        qd == GetAsset(p.asset1.denom).coinDecimals
        positionPool == GetPool(p.pool_id)
        priceRange == << getClTickPrice(p.lower_tick, bd, qd),
                         getClTickPrice(p.upper_tick, bd, qd) >>
        isUnbonding == p.position_id \in userUnbondingPositions
        isSuperfluid == p.position_id \in delegatedPositions
        isSuperfluidUnstaking == p.position_id \in undelegatingPositions
    IN [ id |-> p.position_id,
         poolId |-> p.pool_id,
         status |-> PositionStatus(p.lower_tick, p.upper_tick,
                                   positionPool.current_sqrt_price,
                                   bd, qd, isSuperfluid, isSuperfluidUnstaking,
                                   isUnbonding),
         priceRange |-> priceRange,
         liquidity |-> p.liquidity,
         currentAssets |-> << Coin(p.asset0.amount, GetAsset(p.asset0.denom).coinMinimalDenom),
                              Coin(p.asset1.amount, GetAsset(p.asset1.denom).coinMinimalDenom) >>,
         unclaimedRewards |-> getTotalClaimableRewards(p.claimable_incentives,
                                                       p.claimable_spread_rewards),
         joinTime |-> p.join_time,
         superfluidData |-> IF isSuperfluid THEN "delegated"
                            ELSE IF isSuperfluidUnstaking THEN "undelegating"
                            ELSE None ]

\* positions.map(...) then filter: the kept positions, in the input's order.
RECURSIVE NormalizeAll(_, _, _, _)
NormalizeAll(positions, unb, del, und) ==
    IF Len(positions) = 0 THEN <<>>
    ELSE LET p == positions[1]
             rest == NormalizeAll(SubSeq(positions, 2, Len(positions)), unb, del, und)
         IN IF PassesAssets(p) /\ PoolFound(p.pool_id)
            THEN <<NormalizedPosition(p, unb, del, und)>> \o rest
            ELSE rest

\* No lookup was made.
NoLookup == [value |-> {}, queried |-> FALSE]
NoLookups ==
    [ made |-> FALSE, at |-> 0, userOsmoAddress |-> "", results |-> [k \in Kinds |-> NoLookup] ]

\* normalizePositions({ positions, userOsmoAddress }): what it resolves to (ok,
\* positions) or that it throws (~ok), the cache it leaves and the lookups it
\* made.  The three lookups are made by every callback that passes the asset
\* check.
normalizePositions(positions, userOsmoAddress, cache, up, t) ==
    LET looksUp == \E i \in 1..Len(positions) : PassesAssets(positions[i])
        none == [value |-> {}, cache |-> cache, queried |-> FALSE]
        r1 == IF looksUp THEN getUserUnbondingPositions(cache, userOsmoAddress, up, t)
              ELSE none
        r2 == IF looksUp THEN getUserDelegatedClPositions(r1.cache, userOsmoAddress, up, t)
              ELSE none
        r3 == IF looksUp THEN getUserUndelegatingClPositions(r2.cache, userOsmoAddress, up, t)
              ELSE none
        throws == \E i \in 1..Len(positions) : CallbackThrows(positions[i])
    IN [ ok |-> ~throws,
         positions |-> IF throws THEN <<>>
                       ELSE NormalizeAll(positions, r1.value, r2.value, r3.value),
         cache |-> r3.cache,
         lookups |-> IF ~looksUp THEN NoLookups
                     ELSE [ made |-> TRUE, at |-> t, userOsmoAddress |-> userOsmoAddress,
                            results |-> [k \in Kinds |->
                               LET r == IF k = UnbondingKind THEN r1
                                        ELSE IF k = DelegatedKind THEN r2 ELSE r3
                               IN [value |-> r.value, queried |-> r.queried]] ] ]

DefaultSortDirection == "desc"
SortDirections == {"asc", "desc", "absent"}

\* A mutant of getUserPositions: the default direction is ascending.
GetUserPositionsDefaultAsc(userOsmoAddress, sortDirection) ==
    LET direction == IF sortDirection = "absent" THEN "asc" ELSE sortDirection
        n == normalizePositions(QueryCLPositions(userOsmoAddress), userOsmoAddress,
                                clCache, upstream, now)
    IN /\ request' = [userOsmoAddress |-> userOsmoAddress, sortDirection |-> sortDirection]
       /\ response' = [ok |-> n.ok, positions |-> Sort(n.positions, direction)]
       /\ clCache' = n.cache
       /\ lastLookups' = n.lookups
       /\ callParity' = ~callParity
       /\ UNCHANGED <<now, upstream>>

\* getUserPositions({ userOsmoAddress, sortDirection })
getUserPositions(userOsmoAddress, sortDirection) ==
    LET direction == IF sortDirection = "absent" THEN DefaultSortDirection
                     ELSE sortDirection
        n == normalizePositions(QueryCLPositions(userOsmoAddress), userOsmoAddress,
                                clCache, upstream, now)
    IN /\ request' = [userOsmoAddress |-> userOsmoAddress, sortDirection |-> sortDirection]
       /\ response' = [ok |-> n.ok, positions |-> Sort(n.positions, direction)]
       /\ clCache' = n.cache
       /\ lastLookups' = n.lookups
       /\ callParity' = ~callParity
       /\ UNCHANGED <<now, upstream>>

\* Time passes.
ClockSteps == {3000}
Tick(step) ==
    /\ now + step <= MaxNow
    /\ now' = now + step
    /\ UNCHANGED <<upstream, clCache, request, response, callParity, lastLookups>>

\* The chain's answer to one of the lookups changes for the first address:
\* none of its positions, or all of them.
UpstreamChange(kind) ==
    /\ upstream' = [upstream EXCEPT ![kind]["osmo1a"] =
                        IF @ = {} THEN PositionIds("osmo1a") ELSE {}]
    /\ UNCHANGED <<now, clCache, request, response, callParity, lastLookups>>

NoRequest == [userOsmoAddress |-> "", sortDirection |-> "absent"]
NoResponse == [ok |-> TRUE, positions |-> <<>>]

InitRouterVars ==
    /\ now = 0
    /\ upstream = [k \in Kinds |-> [a \in Addresses |->
                      IF a = "osmo1b" /\ k = UnbondingKind THEN {4}
                      ELSE IF a = "osmo1b" /\ k = DelegatedKind THEN {6}
                      ELSE {}]]
    /\ clCache = << >>
    /\ request = NoRequest
    /\ response = NoResponse
    /\ callParity = FALSE
    /\ lastLookups = NoLookups

IdleRouter == InitRouterVars


----------------------------------------------------------------------------
(* getPositionStatus applied to one position, as normalizePositions calls it *)

\* (lower_tick, upper_tick) of the positions tried.  A range with only one end
\* at minTick or maxTick lies beside the current prices tried below: a price
\* inside it would make the differences of getPositionStatus 19 digits long.
StatusRanges ==
    { <<minTick, maxTick>>, <<minTick, -9000000>>, <<9000000, maxTick>>,
      <<-1000000, 1000000>>, <<-5000000, 1000000>>, <<0, 3000000>>,
      <<1000000, 3000000>>, <<-5000000, 0>>, <<1000000, 1000000>> }

StatusSqrtPrices == {DecZero, DecOfInt(1), DecOfInt(2)}

NoStatusInput ==
    [ lower_tick |-> 0, upper_tick |-> 0, current_sqrt_price |-> DecZero,
      isSuperfluid |-> FALSE, isSuperfluidUnstaking |-> FALSE, isUnbonding |-> FALSE ]

IdleStatus == stInput = NoStatusInput /\ stStatus = None /\ stDone = FALSE

InitStatusVars ==
    /\ \E r \in StatusRanges, c \in StatusSqrtPrices, sf \in BOOLEAN, su \in BOOLEAN,
          u \in BOOLEAN :
          stInput = [ lower_tick |-> r[1], upper_tick |-> r[2], current_sqrt_price |-> c,
                      isSuperfluid |-> sf, isSuperfluidUnstaking |-> su,
                      isUnbonding |-> u ]
    /\ stStatus = None
    /\ stDone = FALSE

ComputeStatus ==
    /\ ~stDone
    /\ stStatus' = PositionStatus(stInput.lower_tick, stInput.upper_tick,
                                  stInput.current_sqrt_price, 6, 6,
                                  stInput.isSuperfluid, stInput.isSuperfluidUnstaking,
                                  stInput.isUnbonding)
    /\ stDone' = TRUE
    /\ UNCHANGED stInput

----------------------------------------------------------------------------
(* @osmosis-labs/math: prices and ticks *)

minSpotPrice == Norm(1, 6)
maxSpotPrice == [m |-> 1, e |-> 56]

\* The tick at or below a price; a price outside the spot price bounds gives
\* the bound's tick.
priceToTick(p) ==
    IF DecLt(p, minSpotPrice) THEN minTick
    ELSE IF DecGt(p, maxSpotPrice) THEN maxTick
    ELSE LET n == NumDigits(p.m)
             k == n - 1 + p.e - DecPrecision
             scaled == IF n - 1 <= ExponentAtPriceOne
                       THEN p.m * Pow10(ExponentAtPriceOne - (n - 1))
                       ELSE p.m \div Pow10(n - 1 - ExponentAtPriceOne)
         IN TicksPerPowerOfTen * k + (scaled - Pow10(ExponentAtPriceOne))

roundToNearestDivisible(tick, divisor) ==
    LET r == tick % divisor
    IN IF 2 * r >= divisor THEN tick - r + divisor ELSE tick - r

\* The price of the tick that is a multiple of the tick spacing at or below
\* (lower tick) or at or above (upper tick) the price's tick.
roundPriceToNearestTick(p, tickSpacing, isLowerTick) ==
    LET tick == priceToTick(p)
        r == tick % tickSpacing
        rounded == IF r = 0 THEN tick
                   ELSE IF isLowerTick THEN tick - r
                   ELSE tick - r + tickSpacing
    IN TickToPrice(Max2(minTick, Min2(maxTick, rounded)))

----------------------------------------------------------------------------
(* useAddConcentratedLiquidityState *)

NoPool ==
    [ type |-> "none", current_sqrt_price |-> DecZero, tick_spacing |-> 100,
      baseDecimals |-> 0, quoteDecimals |-> 0 ]

\* The pools the pool query may answer with: a concentrated pool at price 1, one
\* with no position yet (price 0), one whose currencies have 18 and 6 decimals
\* at price 10^-10 (100 for display) and a weighted pool.
Pools ==
    { [ type |-> "concentrated", current_sqrt_price |-> DecOfInt(1), tick_spacing |-> 100,
        baseDecimals |-> 6, quoteDecimals |-> 6 ],
      [ type |-> "concentrated", current_sqrt_price |-> DecZero, tick_spacing |-> 100,
        baseDecimals |-> 6, quoteDecimals |-> 6 ],
      [ type |-> "concentrated", current_sqrt_price |-> Norm(1, 13), tick_spacing |-> 100,
        baseDecimals |-> 18, quoteDecimals |-> 6 ],
      [ type |-> "weighted", current_sqrt_price |-> DecZero, tick_spacing |-> 100,
        baseDecimals |-> 6, quoteDecimals |-> 6 ] }

NoHistoricalPriceData == [ loaded |-> FALSE, min |-> DecZero, max |-> DecZero ]

\* What the historical price query may answer with: min and max of the last
\* 7 days, for display.
HistoricalPrices ==
    { [ loaded |-> TRUE, min |-> Norm(8, 17), max |-> Norm(12, 17) ],
      [ loaded |-> TRUE, min |-> DecOfInt(80), max |-> DecOfInt(120) ],
      [ loaded |-> TRUE, min |-> Norm(99999, 13), max |-> Norm(100001, 13) ] }

\* What the user types as a min or max price.
PriceInputs ==
    { <<"0">>, <<"1">>, <<"1", "0", "0">>, <<"5", "0", "0">>, <<"0", ".", "0", "1">>,
      <<"1", ".">>, <<"0", ".", "7", "8">>, <<"1", ".", "2", "2">> }

AmountInputStates == {"empty", "valid", "invalid"}

NoError == ""
BaseAmountError == "base amount error"
QuoteAmountError == "quote amount error"
InvalidRangeError == "InvalidRangeError: lower range must be less than upper range."

\* useAmountInput(currency).amount is defined, and its error.
HasAmount(input) == input # "empty"
BaseError(input) == IF input = "invalid" THEN BaseAmountError ELSE NoError
QuoteError(input) == IF input = "invalid" THEN QuoteAmountError ELSE NoError

MODERATE_STRATEGY_MULTIPLIER == Norm(25, 16)

clPool(p) == p.type = "concentrated"

calcLastWeekPriceDiff(p, h, multiplier) ==
    IF ~h.loaded THEN <<DecZero, DecZero>>
    ELSE LET minPrice7d == removeCurrencyDecimals(h.min, p.baseDecimals, p.quoteDecimals)
             maxPrice7d == removeCurrencyDecimals(h.max, p.baseDecimals, p.quoteDecimals)
             priceDiff == DecMul(DecSub(maxPrice7d, minPrice7d), multiplier)
         IN <<DecSub(minPrice7d, priceDiff), DecAdd(maxPrice7d, priceDiff)>>

currentPrice(p) ==
    IF ~clPool(p) THEN DecZero ELSE DecMul(p.current_sqrt_price, p.current_sqrt_price)

range(p, minRaw, maxRaw, full) ==
    LET input0 == toDec(minRaw, p.baseDecimals, p.quoteDecimals)
        input1 == toDec(maxRaw, p.baseDecimals, p.quoteDecimals)
    IN IF full \/ ~clPool(p) THEN <<minSpotPrice, maxSpotPrice>>
       ELSE LET inputMinPrice == roundPriceToNearestTick(input0, p.tick_spacing, TRUE)
                inputMaxPrice == roundPriceToNearestTick(input1, p.tick_spacing, TRUE)
                minPrice50x == DecQuo(currentPrice(p), DecOfInt(50))
                maxPrice50x == DecMul(currentPrice(p), DecOfInt(50))
            IN << IF DecLt(inputMinPrice, minPrice50x) THEN minPrice50x ELSE inputMinPrice,
                  IF DecGt(inputMaxPrice, maxPrice50x) THEN maxPrice50x ELSE inputMaxPrice >>

rangeWithCurrencyDecimals(p, minRaw, maxRaw, full) ==
    IF full
    THEN << addCurrencyDecimals(minSpotPrice, p.baseDecimals, p.quoteDecimals),
            DecMul(DecMul(currentPrice(p),
                          multiplicationQuoteOverBase(p.baseDecimals, p.quoteDecimals)),
                   DecOfInt(2)) >>
    ELSE << toDecWithCurrencyDecimals(minRaw), toDecWithCurrencyDecimals(maxRaw) >>

baseDepositOnly(p, minRaw, maxRaw, full) ==
    IF DecIsZero(currentPrice(p)) THEN FALSE
    ELSE /\ ~full
         /\ DecLt(currentPrice(p), range(p, minRaw, maxRaw, full)[1])
         /\ DecLt(currentPrice(p), range(p, minRaw, maxRaw, full)[2])

quoteDepositOnly(p, minRaw, maxRaw, full) ==
    IF DecIsZero(currentPrice(p)) THEN FALSE
    ELSE /\ ~full
         /\ DecGt(currentPrice(p), range(p, minRaw, maxRaw, full)[1])
         /\ DecGt(currentPrice(p), range(p, minRaw, maxRaw, full)[2])

moderatePriceRange(p, h) ==
    IF ~clPool(p) THEN <<Norm(1, 17), DecOfInt(100)>>
    ELSE LET diff == calcLastWeekPriceDiff(p, h, MODERATE_STRATEGY_MULTIPLIER)
         IN << roundPriceToNearestTick(diff[1], p.tick_spacing, TRUE),
               roundPriceToNearestTick(diff[2], p.tick_spacing, FALSE) >>

AGGRESSIVE_STRATEGY_MULTIPLIER == Norm(5, 16)

\* new Int(clPool?.raw.tick_spacing ?? 100)
tickDivisor(p) == IF clPool(p) THEN p.tick_spacing ELSE 100

\* The ticks of the range, rounded to the tick divisor; two ends that round to
\* the same tick are moved one divisor apart each.  priceToTick does not throw
\* on a price of the range, so the catch branch is not taken.
tickRange(p, minRaw, maxRaw, full) ==
    IF full THEN <<minTick, maxTick>>
    ELSE LET lowerTick == priceToTick(range(p, minRaw, maxRaw, full)[1])
             upperTick == priceToTick(range(p, minRaw, maxRaw, full)[2])
             lowerRounded == roundToNearestDivisible(lowerTick, tickDivisor(p))
             upperRounded == roundToNearestDivisible(upperTick, tickDivisor(p))
             lowerTickRounded == IF lowerRounded = upperRounded
                                 THEN lowerRounded - tickDivisor(p) ELSE lowerRounded
             upperTickRounded == IF lowerRounded = upperRounded
                                 THEN upperRounded + tickDivisor(p) ELSE upperRounded
         IN << IF lowerTickRounded < minTick THEN minTick ELSE lowerTickRounded,
               IF upperTickRounded > maxTick THEN maxTick ELSE upperTickRounded >>

moderateTickRange(p, h) ==
    << roundToNearestDivisible(priceToTick(moderatePriceRange(p, h)[1]), tickDivisor(p)),
       roundToNearestDivisible(priceToTick(moderatePriceRange(p, h)[2]), tickDivisor(p)) >>

aggressivePriceRange(p, h) ==
    IF ~clPool(p) THEN <<Norm(1, 17), DecOfInt(100)>>
    ELSE LET diff == calcLastWeekPriceDiff(p, h, AGGRESSIVE_STRATEGY_MULTIPLIER)
         IN << roundPriceToNearestTick(diff[1], p.tick_spacing, TRUE),
               roundPriceToNearestTick(diff[2], p.tick_spacing, FALSE) >>

aggressiveTickRange(p, h) ==
    << roundToNearestDivisible(priceToTick(aggressivePriceRange(p, h)[1]), tickDivisor(p)),
       roundToNearestDivisible(priceToTick(aggressivePriceRange(p, h)[2]), tickDivisor(p)) >>

\* The value of currentStrategy when the code returns null.
NullStrategy == "null"

\* A mutant of currentStrategy: the aggressive range is looked at first.
CurrentStrategyAggressiveFirst(p, h, minRaw, maxRaw, full) ==
    IF full THEN "passive"
    ELSE IF tickRange(p, minRaw, maxRaw, full) = aggressiveTickRange(p, h) THEN "aggressive"
    ELSE IF tickRange(p, minRaw, maxRaw, full) = moderateTickRange(p, h) THEN "moderate"
    ELSE NullStrategy

currentStrategy(p, h, minRaw, maxRaw, full) ==
    LET isRangePassive == full
        isRangeAggressive ==
            /\ ~isRangePassive
            /\ tickRange(p, minRaw, maxRaw, full)[1] = aggressiveTickRange(p, h)[1]
            /\ tickRange(p, minRaw, maxRaw, full)[2] = aggressiveTickRange(p, h)[2]
        isRangeModerate ==
            /\ ~isRangePassive
            /\ tickRange(p, minRaw, maxRaw, full)[1] = moderateTickRange(p, h)[1]
            /\ tickRange(p, minRaw, maxRaw, full)[2] = moderateTickRange(p, h)[2]
    IN IF isRangePassive THEN "passive"
       ELSE IF isRangeModerate THEN "moderate"
       ELSE IF isRangeAggressive THEN "aggressive"
       ELSE NullStrategy

\* A mutant of error: the amount inputs' errors come first.
ErrorAmountsFirst(p, minRaw, maxRaw, full, base, quote) ==
    IF BaseError(base) # NoError THEN BaseError(base)
    ELSE IF QuoteError(quote) # NoError THEN QuoteError(quote)
    ELSE IF ~full /\ DecGte(range(p, minRaw, maxRaw, full)[1], range(p, minRaw, maxRaw, full)[2])
    THEN InvalidRangeError
    ELSE NoError

error(p, minRaw, maxRaw, full, base, quote) ==
    IF ~full /\ DecGte(range(p, minRaw, maxRaw, full)[1], range(p, minRaw, maxRaw, full)[2])
    THEN InvalidRangeError
    ELSE IF quoteDepositOnly(p, minRaw, maxRaw, full) THEN QuoteError(quote)
    ELSE IF baseDepositOnly(p, minRaw, maxRaw, full) THEN BaseError(base)
    ELSE IF BaseError(base) # NoError THEN BaseError(base)
    ELSE QuoteError(quote)

\* The state after a render with the values given and the effect that
\* initializes the range, which runs after it: setMinRange and setMaxRange with
\* the moderate range of that render, for display.
Render(p, h, minRaw, maxRaw, full, base, quote) ==
    LET fires == clPool(p) /\ ~initialized /\ HasAmount(base) /\ HasAmount(quote)
        mult == GetTenExponentN(p.baseDecimals - p.quoteDecimals)
        moderate == moderatePriceRange(p, h)
    IN /\ pool' = p
       /\ historicalPriceData' = h
       /\ baseAmountInput' = base
       /\ quoteAmountInput' = quote
       /\ initialized' = (initialized \/ fires)
       /\ fullRange' = IF fires THEN FALSE ELSE full
       /\ minPriceInput' = IF fires THEN InputString(DecToString(DecMul(moderate[1], mult)))
                           ELSE minRaw
       /\ maxPriceInput' = IF fires THEN InputString(DecToString(DecMul(moderate[2], mult)))
                           ELSE maxRaw

\* The pool query answers.
LoadPool(p) ==
    /\ pool = NoPool
    /\ Render(p, historicalPriceData, minPriceInput, maxPriceInput, fullRange,
              baseAmountInput, quoteAmountInput)
    /\ UNCHANGED edited

\* The historical price query answers; it is enabled once the pool is a
\* concentrated pool with its two currencies.
LoadHistoricalPrice(h) ==
    /\ clPool(pool)
    /\ ~historicalPriceData.loaded
    /\ Render(pool, h, minPriceInput, maxPriceInput, fullRange,
              baseAmountInput, quoteAmountInput)
    /\ UNCHANGED edited

\* An amount input changes; it has an amount only once it has a currency.
SetBaseAmount(input) ==
    /\ clPool(pool)
    /\ input # baseAmountInput
    /\ Render(pool, historicalPriceData, minPriceInput, maxPriceInput, fullRange,
              input, quoteAmountInput)
    /\ UNCHANGED edited

SetQuoteAmount(input) ==
    /\ clPool(pool)
    /\ input # quoteAmountInput
    /\ Render(pool, historicalPriceData, minPriceInput, maxPriceInput, fullRange,
              baseAmountInput, input)
    /\ UNCHANGED edited

setMinRange(min) ==
    /\ IF ~clPool(pool)
       THEN UNCHANGED <<pool, historicalPriceData, minPriceInput, maxPriceInput, fullRange,
                        initialized, baseAmountInput, quoteAmountInput>>
       ELSE Render(pool, historicalPriceData, InputString(min), maxPriceInput, FALSE,
                   baseAmountInput, quoteAmountInput)
    /\ edited' = TRUE

setMaxRange(max) ==
    /\ IF ~clPool(pool)
       THEN UNCHANGED <<pool, historicalPriceData, minPriceInput, maxPriceInput, fullRange,
                        initialized, baseAmountInput, quoteAmountInput>>
       ELSE Render(pool, historicalPriceData, minPriceInput, InputString(max), FALSE,
                   baseAmountInput, quoteAmountInput)
    /\ edited' = TRUE

setFullRange(full) ==
    /\ Render(pool, historicalPriceData, minPriceInput, maxPriceInput, full,
              baseAmountInput, quoteAmountInput)
    /\ edited' = TRUE

InitHookVars ==
    /\ pool = NoPool
    /\ historicalPriceData = NoHistoricalPriceData
    /\ minPriceInput = <<"0">>
    /\ maxPriceInput = <<"0">>
    /\ fullRange = FALSE
    /\ initialized = FALSE
    /\ baseAmountInput = "empty"
    /\ quoteAmountInput = "empty"
    /\ edited = FALSE

IdleHook == InitHookVars

----------------------------------------------------------------------------
(* useAddConcentratedLiquidityConfig: addLiquidity and increaseLiquidity *)

MaxCalls == 2

NoPromise == [ status |-> "none", reason |-> "", op |-> "", sent |-> FALSE ]

Rejected(op, reason) == [ status |-> "rejected", reason |-> reason, op |-> op, sent |-> FALSE ]
Pending(op, sent) == [ status |-> "pending", reason |-> "", op |-> op, sent |-> sent ]

\* A mutant of addLiquidity: the amounts are not looked at.
AddLiquidityUnchecked(superfluidValidatorAddress, sendThrows) ==
    /\ callCount < MaxCalls
    /\ promise.status # "pending"
    /\ callCount' = callCount + 1
    /\ events' = Append(events, "addLiquidityStarted")
    /\ sentMsgs' = Append(sentMsgs,
                     [ type |-> "createConcentratedLiquidityPosition",
                       superfluidValidatorAddress |-> superfluidValidatorAddress,
                       base |-> TRUE, quote |-> TRUE ])
    /\ promise' = Pending("addLiquidity", TRUE)
    /\ UNCHANGED account

addLiquidity(superfluidValidatorAddress, sendThrows) ==
    /\ callCount < MaxCalls
    /\ promise.status # "pending"
    /\ callCount' = callCount + 1
    /\ UNCHANGED account
    /\ IF ~HasAmount(baseAmountInput) \/ ~HasAmount(quoteAmountInput)
       THEN /\ promise' = Rejected("addLiquidity", "Invalid amount inputs")
            /\ UNCHANGED <<events, sentMsgs>>
       ELSE LET baseOnly == baseDepositOnly(pool, minPriceInput, maxPriceInput, fullRange)
                quoteOnly == quoteDepositOnly(pool, minPriceInput, maxPriceInput, fullRange)
            IN /\ events' = Append(events, "addLiquidityStarted")
               /\ IF ~account
                  THEN promise' = Pending("addLiquidity", FALSE) /\ UNCHANGED sentMsgs
                  ELSE IF sendThrows
                  THEN promise' = Rejected("addLiquidity", "e.message") /\ UNCHANGED sentMsgs
                  ELSE /\ promise' = Pending("addLiquidity", TRUE)
                       /\ sentMsgs' = Append(sentMsgs,
                             [ type |-> "createConcentratedLiquidityPosition",
                               superfluidValidatorAddress |-> superfluidValidatorAddress,
                               base |-> baseOnly \/ ~quoteOnly,
                               quote |-> ~baseOnly ])

increaseLiquidity(positionId, sendThrows) ==
    /\ callCount < MaxCalls
    /\ promise.status # "pending"
    /\ callCount' = callCount + 1
    /\ UNCHANGED account
    /\ IF ~HasAmount(baseAmountInput) \/ ~HasAmount(quoteAmountInput)
       THEN /\ promise' = Rejected("increaseLiquidity", "Invalid amount inputs")
            /\ UNCHANGED <<events, sentMsgs>>
       ELSE LET baseOnly == baseDepositOnly(pool, minPriceInput, maxPriceInput, fullRange)
                quoteOnly == quoteDepositOnly(pool, minPriceInput, maxPriceInput, fullRange)
            IN /\ events' = Append(events, "addMoreLiquidityStarted")
               /\ IF ~account
                  THEN promise' = Pending("increaseLiquidity", FALSE) /\ UNCHANGED sentMsgs
                  ELSE IF sendThrows
                  THEN promise' = Rejected("increaseLiquidity", "e.message")
                       /\ UNCHANGED sentMsgs
                  ELSE /\ promise' = Pending("increaseLiquidity", TRUE)
                       /\ sentMsgs' = Append(sentMsgs,
                             [ type |-> "addToConcentratedLiquidityPosition",
                               superfluidValidatorAddress |-> positionId,
                               base |-> ~quoteOnly,
                               quote |-> ~baseOnly ])

\* The callback the wallet calls with the transaction of a message sent.
TxCallback(code) ==
    /\ promise.status = "pending"
    /\ promise.sent
    /\ IF code # 0
       THEN /\ promise' = Rejected(promise.op, "tx.rawLog")
            /\ UNCHANGED events
       ELSE /\ promise' = [ status |-> "resolved", reason |-> "", op |-> promise.op,
                            sent |-> FALSE ]
            /\ events' = Append(events, IF promise.op = "addLiquidity"
                                        THEN "addLiquidityCompleted"
                                        ELSE "addMoreLiquidityCompleted")
    /\ UNCHANGED <<account, sentMsgs, callCount>>

InitTxVars ==
    /\ account \in BOOLEAN
    /\ promise = NoPromise
    /\ events = <<>>
    /\ sentMsgs = <<>>
    /\ callCount = 0

IdleTx ==
    /\ account = FALSE
    /\ promise = NoPromise
    /\ events = <<>>
    /\ sentMsgs = <<>>
    /\ callCount = 0

----------------------------------------------------------------------------
(* The reward totals applied to two reward lists *)

\* The raw coins of the reward lists tried: two raw denoms of one asset, a
\* second asset, a denom the asset list does not have.
RewardCoins ==
    { Coin(1, "uosmo"), Coin(2, "OSMO"), Coin(3, "uusdc"), Coin(5, "uusdc"),
      Coin(4, "ibc/unknown") }

RECURSIVE RewardLists(_)
RewardLists(n) ==
    IF n = 0 THEN {<<>>}
    ELSE RewardLists(n - 1)
           \cup { Append(l, c) : l \in { x \in RewardLists(n - 1) : Len(x) = n - 1 },
                                 c \in RewardCoins }

\* A reward list of a response: undefined, or a list.
RawRewards == {Absent} \cup { Present(l) : l \in RewardLists(MaxRewards) }

IdleRewards ==
    rwSpread = Absent /\ rwIncentives = Absent /\ rwOp = None /\ rwResult = <<>>

InitRewardVars ==
    /\ rwSpread \in RawRewards
    /\ rwIncentives \in RawRewards
    /\ rwOp = None
    /\ rwResult = <<>>

TotalClaimableRewards ==
    /\ rwOp = None
    /\ rwOp' = "getTotalClaimableRewards"
    /\ rwResult' = getTotalClaimableRewards(rwIncentives, rwSpread)
    /\ UNCHANGED <<rwSpread, rwIncentives>>

TotalEarned ==
    /\ rwOp = None
    /\ rwOp' = "getTotalEarned"
    /\ rwResult' = getTotalEarned(rwSpread, rwIncentives)
    /\ UNCHANGED <<rwSpread, rwIncentives>>

----------------------------------------------------------------------------
(* Specifications *)

\* The router: calls of getUserPositions while time passes and the chain changes.
Init == InitRouterVars /\ IdleTrim /\ IdlePrice /\ IdleStatus /\ IdleHook /\ IdleTx /\ IdleRewards
Next ==
    \/ \E a \in Addresses, sd \in SortDirections :
          getUserPositions(a, sd)
          /\ UNCHANGED <<strVars, priceVars, statusVars, hookVars, txVars, rewardVars>>
    \/ \E step \in ClockSteps :
          Tick(step) /\ UNCHANGED <<strVars, priceVars, statusVars, hookVars, txVars, rewardVars>>
    \/ \E kind \in Kinds :
          UpstreamChange(kind) /\ UNCHANGED <<strVars, priceVars, statusVars, hookVars, txVars, rewardVars>>
Spec == Init /\ [][Next]_vars

\* trimZerosFromEnd applied once to a string.
InitTrim == InitTrimVars /\ IdlePrice /\ IdleRouter /\ IdleStatus /\ IdleHook /\ IdleTx /\ IdleRewards
NextTrim == Trim /\ UNCHANGED <<priceVars, routerVars, statusVars, hookVars, txVars, rewardVars>>
SpecTrim == InitTrim /\ [][NextTrim]_vars

\* One price input: strings typed into it and prices converted.
InitPrice == InitPriceVars /\ IdleTrim /\ IdleRouter /\ IdleStatus /\ IdleHook /\ IdleTx /\ IdleRewards
NextPrice ==
    \/ \E value \in StringsUpTo(MaxRawLen) :
          Input(value) /\ UNCHANGED <<strVars, routerVars, statusVars, hookVars, txVars, rewardVars>>
    \/ \E d \in PriceSamples :
          InputDec(d) /\ UNCHANGED <<strVars, routerVars, statusVars, hookVars, txVars, rewardVars>>
    \/ \E p \in PriceSamples :
          Convert(p) /\ UNCHANGED <<strVars, routerVars, statusVars, hookVars, txVars, rewardVars>>
SpecPrice == InitPrice /\ [][NextPrice]_vars

\* getPositionStatus applied once to a position.
InitStatus == InitStatusVars /\ IdleTrim /\ IdlePrice /\ IdleRouter /\ IdleHook /\ IdleTx /\ IdleRewards
NextStatus == ComputeStatus /\ UNCHANGED <<strVars, priceVars, routerVars, hookVars, txVars, rewardVars>>
SpecStatus == InitStatus /\ [][NextStatus]_vars

\* useAddConcentratedLiquidityState: the queries answer, the user sets amounts,
\* prices and full range.
InitHook == InitHookVars /\ IdleTrim /\ IdlePrice /\ IdleRouter /\ IdleStatus /\ IdleTx /\ IdleRewards
NextHook ==
    \/ \E p \in Pools :
          LoadPool(p) /\ UNCHANGED <<strVars, priceVars, routerVars, statusVars, txVars, rewardVars>>
    \/ \E h \in HistoricalPrices :
          LoadHistoricalPrice(h)
          /\ UNCHANGED <<strVars, priceVars, routerVars, statusVars, txVars, rewardVars>>
    \/ \E input \in AmountInputStates :
          SetBaseAmount(input)
          /\ UNCHANGED <<strVars, priceVars, routerVars, statusVars, txVars, rewardVars>>
    \/ \E input \in AmountInputStates :
          SetQuoteAmount(input)
          /\ UNCHANGED <<strVars, priceVars, routerVars, statusVars, txVars, rewardVars>>
    \/ \E min \in PriceInputs :
          setMinRange(min) /\ UNCHANGED <<strVars, priceVars, routerVars, statusVars, txVars, rewardVars>>
    \/ \E max \in PriceInputs :
          setMaxRange(max) /\ UNCHANGED <<strVars, priceVars, routerVars, statusVars, txVars, rewardVars>>
    \/ \E full \in BOOLEAN :
          setFullRange(full) /\ UNCHANGED <<strVars, priceVars, routerVars, statusVars, txVars, rewardVars>>
SpecHook == InitHook /\ [][NextHook]_vars

\* useAddConcentratedLiquidityConfig: addLiquidity and increaseLiquidity called
\* on whatever the state of the hook is.
InitTx == InitHookVars /\ InitTxVars /\ IdleTrim /\ IdlePrice /\ IdleRouter /\ IdleStatus /\ IdleRewards
NextTx ==
    \/ \E p \in Pools :
          LoadPool(p) /\ UNCHANGED <<strVars, priceVars, routerVars, statusVars, txVars, rewardVars>>
    \/ \E h \in HistoricalPrices :
          LoadHistoricalPrice(h)
          /\ UNCHANGED <<strVars, priceVars, routerVars, statusVars, txVars, rewardVars>>
    \/ \E input \in AmountInputStates :
          SetBaseAmount(input)
          /\ UNCHANGED <<strVars, priceVars, routerVars, statusVars, txVars, rewardVars>>
    \/ \E input \in AmountInputStates :
          SetQuoteAmount(input)
          /\ UNCHANGED <<strVars, priceVars, routerVars, statusVars, txVars, rewardVars>>
    \/ \E v \in {"", "osmovaloper1"}, sendThrows \in BOOLEAN :
          addLiquidity(v, sendThrows)
          /\ UNCHANGED <<strVars, priceVars, routerVars, statusVars, hookVars, rewardVars>>
    \/ \E positionId \in {"7"}, sendThrows \in BOOLEAN :
          increaseLiquidity(positionId, sendThrows)
          /\ UNCHANGED <<strVars, priceVars, routerVars, statusVars, hookVars, rewardVars>>
    \/ \E code \in {0, 5} :
          TxCallback(code) /\ UNCHANGED <<strVars, priceVars, routerVars, statusVars, hookVars, rewardVars>>
SpecTx == InitTx /\ [][NextTx]_vars

\* getTotalClaimableRewards or getTotalEarned applied once to two reward lists.
InitRewards ==
    InitRewardVars /\ IdleTrim /\ IdlePrice /\ IdleRouter /\ IdleStatus /\ IdleHook /\ IdleTx
NextRewards ==
    \/ TotalClaimableRewards
       /\ UNCHANGED <<strVars, priceVars, routerVars, statusVars, hookVars, txVars>>
    \/ TotalEarned
       /\ UNCHANGED <<strVars, priceVars, routerVars, statusVars, hookVars, txVars>>
SpecRewards == InitRewards /\ [][NextRewards]_vars

----------------------------------------------------------------------------
(* Claims about trimZerosFromEnd and the price input *)

HasNonZeroAfterDot(s) ==
    LET dot == IndexOfDot(s)
    IN dot # 0 /\ \E k \in (dot + 1)..Len(s) : s[k] # "0"

StripTrailingZeros(s) == SubSeq(s, 1, Len(s) - TrailingZeros(s))

TrimmedAsClaimed(s, r) ==
    IF HasNonZeroAfterDot(s)
    THEN /\ r = StripTrailingZeros(s)
         /\ Len(r) > 0
         /\ r[Len(r)] \notin {"0", "."}
    ELSE r = s

\* C7 as stated: for every string, when a character other than 0 follows the
\* first point the result is the input without its trailing 0s and ends in
\* neither 0 nor a point; otherwise the result is the input.
C7_TrimEveryString == trimDone => TrimmedAsClaimed(str, trimmed)

\* C7 (amended): the same, for every string with at most one point.
C7_TrimOnePoint == (trimDone /\ DotCount(str) <= 1) => TrimmedAsClaimed(str, trimmed)

C7_Witness ==
    /\ trimDone
    /\ DotCount(str) = 1
    /\ HasNonZeroAfterDot(str)
    /\ Len(trimmed) < Len(str)

ExactAt(p, d) == d <= 0 \/ p.m = 0 \/ p.e >= d

RawWithoutPoint ==
    IF decRaw[Len(decRaw)] = "." THEN SubSeq(decRaw, 1, Len(decRaw) - 1) ELSE decRaw

\* C9 as stated: addCurrencyDecimals(removeCurrencyDecimals(p)) = p for every
\* price and every pair of decimals, and for every decimal string entered
\* addCurrencyDecimals(toDec()) = toDecWithCurrencyDecimals().
C9_RoundTripAlways ==
    /\ converted => readded = price
    /\ ValidDecimalString(decRaw) =>
           addCurrencyDecimals(toDec(decRaw, baseDecimals, quoteDecimals),
                               baseDecimals, quoteDecimals)
             = toDecWithCurrencyDecimals(decRaw)

\* C9 (amended): with d = baseDecimals - quoteDecimals, the round trip gives p
\* back exactly when d <= 0 or p is a whole multiple of 10^(d - 18); toDec() is
\* the entered value, a terminating point ignored, divided by 10^d and rounded
\* to 18 decimals; and addCurrencyDecimals(toDec()) =
\* toDecWithCurrencyDecimals() whenever the entered value is such a multiple.
C9_RoundTripExact ==
    LET d == baseDecimals - quoteDecimals
    IN /\ converted => (readded = price <=> ExactAt(price, d))
       /\ ValidDecimalString(decRaw) =>
            LET v == ParseDec(RawWithoutPoint)
                t == toDec(decRaw, baseDecimals, quoteDecimals)
            IN /\ t = DecOfScaled(v.m, v.e - d)
               /\ v = toDecWithCurrencyDecimals(decRaw)
               /\ ExactAt(v, d) =>
                    addCurrencyDecimals(t, baseDecimals, quoteDecimals) = v

C9_Witness ==
    /\ converted
    /\ baseDecimals - quoteDecimals > 0
    /\ price.m # 0
    /\ readded = price
    /\ decRaw[Len(decRaw)] = "."
    /\ ValidDecimalString(decRaw)

----------------------------------------------------------------------------
(* Claims about the router *)

\* The lookups of a call made now for an address, read off the chain alone.
UpstreamLookups(addr) == [k \in Kinds |-> upstream[k][addr]]

\* The lookups of a call made now for an address: for each kind what clCache
\* holds for that address and kind if it was stored at most 5 seconds ago,
\* else the chain's answer.
CachedLookups(addr) ==
    [k \in Kinds |->
        IF <<addr, k>> \in DOMAIN clCache /\ now - clCache[<<addr, k>>].createdTime <= 5000
        THEN clCache[<<addr, k>>].value
        ELSE upstream[k][addr]]

\* What getUserPositions answers for an address and direction given the three
\* lastLookups' values.
ResponseWith(addr, sd, lookups) ==
    [ ok |-> TRUE,
      positions |-> Sort(NormalizeAll(QueryCLPositions(addr), lookups[UnbondingKind],
                                      lookups[DelegatedKind], lookups[UndelegatingKind]),
                         IF sd = "asc" THEN "asc" ELSE "desc") ]

KeptPositionIds(addr) ==
    { QueryCLPositions(addr)[i].position_id :
        i \in { j \in 1..Len(QueryCLPositions(addr)) :
                  /\ PassesAssets(QueryCLPositions(addr)[j])
                  /\ PoolFound(QueryCLPositions(addr)[j].pool_id) } }

C10_StatusPrecedence ==
    stDone =>
        LET full == stInput.lower_tick = minTick /\ stInput.upper_tick = maxTick
            u == stInput.isUnbonding
            sf == stInput.isSuperfluid
            su == stInput.isSuperfluidUnstaking
            lo == TickToPrice(stInput.lower_tick)
            up == TickToPrice(stInput.upper_tick)
            cur == DecMul(stInput.current_sqrt_price, stInput.current_sqrt_price)
        IN /\ stStatus = "fullRange" <=> full
           /\ stStatus = "unbonding" <=> (~full /\ u)
           /\ stStatus = "superfluidStaked" <=> (~full /\ ~u /\ sf)
           /\ stStatus = "superfluidUnstaking" <=> (~full /\ ~u /\ ~sf /\ su)
           /\ stStatus \in {"inRange", "nearBounds", "outOfRange"}
                <=> (~full /\ ~u /\ ~sf /\ ~su)
           /\ (~full /\ ~u /\ ~sf /\ ~su) =>
                (stStatus = "outOfRange" <=> ~(DecLt(lo, cur) /\ DecLt(cur, up)))

C10_Witness ==
    /\ stDone
    /\ stStatus = "fullRange"
    /\ stInput.isUnbonding
    /\ stInput.isSuperfluid
----------------------------------------------------------------------------
(* Claims about the add-liquidity hooks *)

CurrentRange == range(pool, minPriceInput, maxPriceInput, fullRange)

CurrentError ==
    error(pool, minPriceInput, maxPriceInput, fullRange, baseAmountInput, quoteAmountInput)

Within50x(p) ==
    /\ DecGte(p, DecQuo(currentPrice(pool), DecOfInt(50)))
    /\ DecLte(p, DecMul(currentPrice(pool), DecOfInt(50)))

\* C1: with full range off and a concentrated pool loaded, both ends of range
\* lie within [currentPrice / 50, currentPrice * 50].
C1_RangeWithin50x ==
    (~fullRange /\ clPool(pool)) => (Within50x(CurrentRange[1]) /\ Within50x(CurrentRange[2]))

\* C3: with full range off and range[0] >= range[1] the error is the
\* InvalidRangeError, whatever the errors of the amount inputs; with full range
\* on the error is never the InvalidRangeError.
C3_InvalidRangeFirst ==
    /\ (~fullRange /\ DecGte(CurrentRange[1], CurrentRange[2]))
          => CurrentError = InvalidRangeError
    /\ fullRange => CurrentError # InvalidRangeError

C3_Witness ==
    /\ edited
    /\ ~fullRange
    /\ DecGt(CurrentRange[1], CurrentRange[2])
    /\ baseAmountInput = "invalid"
    /\ quoteAmountInput = "invalid"
    /\ CurrentError = InvalidRangeError

\* C4: a call of addLiquidity or increaseLiquidity with the base or the quote
\* amount missing rejects with "Invalid amount inputs", sends no message and
\* logs no event, neither at the call nor later.
C4_RejectsMissingAmounts ==
    [][ /\ (callCount' # callCount
              /\ (~HasAmount(baseAmountInput) \/ ~HasAmount(quoteAmountInput)))
           => /\ promise'.status = "rejected"
              /\ promise'.reason = "Invalid amount inputs"
              /\ events' = events
              /\ sentMsgs' = sentMsgs
        /\ (callCount' = callCount /\ promise.status = "rejected"
              /\ promise.reason = "Invalid amount inputs")
           => (events' = events /\ sentMsgs' = sentMsgs) ]_vars

\* A call rejected for a missing amount after a call that was logged and sent.
C4_Witness ==
    /\ account
    /\ promise.status = "rejected"
    /\ promise.reason = "Invalid amount inputs"
    /\ ~HasAmount(quoteAmountInput)
    /\ Len(events) > 0
    /\ Len(sentMsgs) > 0

\* C5: once the range is initialized and before the user sets the range, the
\* selected min and max prices are the moderate price range for display and
\* full range is off.
C5_InitialRangeIsModerate ==
    (initialized /\ ~edited) =>
        LET moderate == moderatePriceRange(pool, historicalPriceData)
        IN /\ ~fullRange
           /\ toDecWithCurrencyDecimals(minPriceInput)
                = addCurrencyDecimals(moderate[1], pool.baseDecimals, pool.quoteDecimals)
           /\ toDecWithCurrencyDecimals(maxPriceInput)
                = addCurrencyDecimals(moderate[2], pool.baseDecimals, pool.quoteDecimals)
----------------------------------------------------------------------------
(* Claims about the reward totals *)

\* The entries of a reward list; none when the list is undefined.
RewardEntries(rawAssets) == IF rawAssets.present THEN rawAssets.items ELSE <<>>

\* The sum of the amounts of the entries whose asset has the minimal denom.
RECURSIVE AmountFor(_, _)
AmountFor(denom, entries) ==
    IF Len(entries) = 0 THEN 0
    ELSE (IF AssetFound(entries[1].denom)
             /\ GetAsset(entries[1].denom).coinMinimalDenom = denom
          THEN entries[1].amount ELSE 0)
         + AmountFor(denom, SubSeq(entries, 2, Len(entries)))

ResolvesTo(denom, entries) ==
    \E i \in 1..Len(entries) :
        AssetFound(entries[i].denom) /\ GetAsset(entries[i].denom).coinMinimalDenom = denom

MinimalDenoms == {"uosmo", "uusdc", "wei"}

\* C11: the total holds at most one coin per minimal denom, a coin for exactly
\* the denoms some spread or incentive entry resolves to, with the sum of those
\* entries' amounts; an entry whose asset is not found adds nothing, and an
\* undefined list counts as empty.
C11_OneCoinPerDenom ==
    rwOp # None =>
        LET entries == RewardEntries(rwSpread) \o RewardEntries(rwIncentives)
        IN /\ \A i \in 1..Len(rwResult) : rwResult[i].denom \in MinimalDenoms
           /\ \A i \in 1..Len(rwResult) : \A j \in 1..Len(rwResult) :
                 rwResult[i].denom = rwResult[j].denom => i = j
           /\ \A d \in MinimalDenoms :
                 IF ResolvesTo(d, entries)
                 THEN \E i \in 1..Len(rwResult) :
                         rwResult[i] = Coin(AmountFor(d, entries), d)
                 ELSE \A i \in 1..Len(rwResult) : rwResult[i].denom # d

\* Two raw denoms of one asset in different lists, next to an entry that is
\* dropped.
C11_Witness ==
    /\ rwOp = "getTotalEarned"
    /\ rwSpread = Present(<<Coin(4, "ibc/unknown"), Coin(1, "uosmo")>>)
    /\ rwIncentives = Present(<<Coin(2, "OSMO")>>)
    /\ rwResult = <<Coin(3, "uosmo")>>

----------------------------------------------------------------------------
(* Claims about the strategy of the range *)

CurrentTickRange == tickRange(pool, minPriceInput, maxPriceInput, fullRange)
CurrentModerateTickRange == moderateTickRange(pool, historicalPriceData)
CurrentAggressiveTickRange == aggressiveTickRange(pool, historicalPriceData)
CurrentStrategy ==
    currentStrategy(pool, historicalPriceData, minPriceInput, maxPriceInput, fullRange)

\* C12: currentStrategy is "passive" exactly when full range is on; otherwise
\* it is "moderate" when the tick range is the moderate tick range,
\* "aggressive" when it is the aggressive tick range and not the moderate one,
\* and null in every other case.
C12_StrategyOfRange ==
    /\ (CurrentStrategy = "passive") <=> fullRange
    /\ ~fullRange =>
          /\ (CurrentStrategy = "moderate") <=> (CurrentTickRange = CurrentModerateTickRange)
          /\ (CurrentStrategy = "aggressive") <=>
                /\ CurrentTickRange = CurrentAggressiveTickRange
                /\ CurrentTickRange # CurrentModerateTickRange
          /\ (CurrentStrategy = NullStrategy) <=>
                /\ CurrentTickRange # CurrentAggressiveTickRange
                /\ CurrentTickRange # CurrentModerateTickRange

\* The range is the moderate and the aggressive tick range at once, which
\* differ from the full range, and the strategy is "moderate".
C12_Witness ==
    /\ ~fullRange
    /\ CurrentModerateTickRange = CurrentAggressiveTickRange
    /\ CurrentTickRange = CurrentModerateTickRange
    /\ CurrentTickRange = <<-200, 100>>
    /\ CurrentStrategy = "moderate"

----------------------------------------------------------------------------
(* Claims about the cached lookups *)

\* A getUserPositions step that makes the three lastLookups.
LookupStep == callParity' # callParity /\ lastLookups'.made

\* The entry of an address and kind is in clCache and at most 5 seconds old.
FreshEntry(addr, k) ==
    <<addr, k>> \in DOMAIN clCache /\ now - clCache[<<addr, k>>].createdTime <= 5000

\* C13 as stated: a lookup made within 5 seconds of a completed lookup of the
\* same kind and address, here those of the call before, makes no upstream
\* query.
C13_CachedAfterAnyLookup ==
    [][(/\ LookupStep
        /\ lastLookups.made
        /\ lastLookups.userOsmoAddress = lastLookups'.userOsmoAddress
        /\ now - lastLookups.at <= 5000)
       => \A k \in Kinds : ~lastLookups'.results[k].queried]_vars

\* C13 (amended): each of the three lookups is cached per address and kind for
\* 5 seconds from the lookup that queried upstream: while the entry of the
\* address and kind is at most 5 seconds old a lookup returns its value, makes
\* no upstream query and leaves the entry as it is, served lookups not
\* extending the 5 seconds; otherwise it queries upstream, returns the answer
\* and stores it with the time of the lookup; the entries of other addresses
\* are left alone.
C13_CachedSinceLastQuery ==
    [][LookupStep =>
         LET addr == lastLookups'.userOsmoAddress
         IN /\ addr = request'.userOsmoAddress
            /\ lastLookups'.at = now
            /\ \A k \in Kinds :
                  IF FreshEntry(addr, k)
                  THEN /\ lastLookups'.results[k] =
                             [value |-> clCache[<<addr, k>>].value, queried |-> FALSE]
                       /\ clCache'[<<addr, k>>] = clCache[<<addr, k>>]
                  ELSE /\ lastLookups'.results[k] =
                             [value |-> upstream[k][addr], queried |-> TRUE]
                       /\ clCache'[<<addr, k>>] =
                             [value |-> upstream[k][addr], createdTime |-> now]
            /\ \A key \in DOMAIN clCache : key[1] # addr => clCache'[key] = clCache[key]
            /\ DOMAIN clCache' = DOMAIN clCache \cup {<<addr, k>> : k \in Kinds}]_vars

\* A call for the first address made more than 5 seconds after its entries
\* were stored: it has queried upstream and stored the answers, while the
\* entries of the second address, stored 3 seconds ago, hold other values.
C13_Witness ==
    /\ lastLookups.made
    /\ lastLookups.userOsmoAddress = "osmo1a"
    /\ lastLookups.at = 6000
    /\ now = 6000
    /\ \A k \in Kinds :
          /\ lastLookups.results[k].queried
          /\ clCache[<<"osmo1a", k>>] = [value |-> lastLookups.results[k].value, createdTime |-> 6000]
    /\ <<"osmo1b", UnbondingKind>> \in DOMAIN clCache
    /\ clCache[<<"osmo1b", UnbondingKind>>] = [value |-> {4}, createdTime |-> 3000]
    /\ lastLookups.results[UnbondingKind].value # {4}

====
